---------------------------- MODULE Spec2Model ----------------------------
(***************************************************************************)
(* Aclarador Chrome extension: the agent pipeline (lib/agents.js, whose    *)
(* text is carried in src/README.md), the popup (src/popup/popup.js) and   *)
(* the content script (src/content/content.js).                            *)
(*                                                                         *)
(* A JavaScript string is a sequence of one-character strings.  Scores     *)
(* that the code rounds with toFixed(2) are integers counting hundredths.  *)
(***************************************************************************)
EXTENDS Integers, Sequences, FiniteSets, TLC

(***************************************************************************)
(* Characters                                                              *)
(***************************************************************************)
\* what the regex class \s matches, among the characters used here
WS == {" ", "\n", "\t"}

\* the regex class [.!?]
Punct == {".", "!", "?"}

Digits == {"0", "1", "2", "3", "4", "5", "6", "7", "8", "9"}

UpperCh == {"F", "U", "E", "S", "O"}

LowerCh == {"a", "c", "d", "e", "f", "h", "i", "k", "l", "n", "o", "r", "s", "t", "u", "x"}

\* the regex class \w, among the characters used here
WordCh == LowerCh \cup UpperCh \cup Digits

\* characters that are neither \w nor \s nor sentence punctuation (\w is ASCII only)
OtherCh == {"-", ",", "+", "í"}

Alphabet == WordCh \cup WS \cup Punct \cup OtherCh

NonWordCh == Alphabet \ WordCh

\* String.prototype.toLowerCase, one character
LowerChar(c) ==
  CASE c = "F" -> "f"
    [] c = "U" -> "u"
    [] c = "E" -> "e"
    [] c = "S" -> "s"
    [] c = "O" -> "o"
    [] OTHER -> c

ToLowerCase(s) == [i \in 1..Len(s) |-> LowerChar(s[i])]

(***************************************************************************)
(* String primitives                                                       *)
(***************************************************************************)
\* String.prototype.split(/[Sep]+/): the pieces between the maximal runs of
\* separator characters; a leading or trailing run leaves an empty piece, and
\* the empty string splits into one empty piece.
Split(s, Sep) ==
  LET positions == [i \in 1..Len(s) |-> i]
      runStarts == SelectSeq(positions,
                             LAMBDA i : s[i] \in Sep /\ (i = 1 \/ s[i - 1] \notin Sep))
      runEnds == SelectSeq(positions,
                           LAMBDA i : s[i] \in Sep
                                      /\ (i = Len(s) \/ s[i + 1] \notin Sep))
      n == Len(runStarts)
  IN [k \in 1..(n + 1) |->
        SubSeq(s,
               IF k = 1 THEN 1 ELSE runEnds[k - 1] + 1,
               IF k = n + 1 THEN Len(s) ELSE runStarts[k] - 1)]

IsBlank(s) == \A i \in 1..Len(s) : s[i] \in WS

\* String.prototype.trim
Trim(s) ==
  IF IsBlank(s) THEN << >>
  ELSE LET first == CHOOSE i \in 1..Len(s) :
                      s[i] \notin WS /\ \A j \in 1..(i - 1) : s[j] \in WS
           last == CHOOSE i \in 1..Len(s) :
                     s[i] \notin WS /\ \A j \in (i + 1)..Len(s) : s[j] \in WS
       IN SubSeq(s, first, last)

\* text.split(/[.!?]+/).filter(s => s.trim())
NonBlank(s) == ~IsBlank(s)

\* the pieces as split, the blank ones kept
SentencesUnfiltered(text) == Split(text, Punct)

Sentences(text) == SelectSeq(Split(text, Punct), NonBlank)

\* s.split(/\s+/).length
SplitLength(s) == Len(Split(s, WS))

\* sentence.trim().split(/\s+/).length
TrimSplitLength(s) == SplitLength(Trim(s))

\* sentences.reduce((sum, s) => sum + s.split(/\s+/).length, 0)
RECURSIVE SumSplitLength(_)
SumSplitLength(ss) ==
  IF ss = << >> THEN 0 ELSE SplitLength(Head(ss)) + SumSplitLength(Tail(ss))

\* Array.prototype.slice(0, n)
Slice(seq, n) == SubSeq(seq, 1, IF Len(seq) < n THEN Len(seq) ELSE n)

\* parseFloat((num / den).toFixed(2)) for num >= 0, den > 0, in hundredths
ToFixed2(num, den) == (200 * num + den) \div (2 * den)

Abs(x) == IF x < 0 THEN -x ELSE x

\* the matches of /\b\w{13,}\b/g: the maximal runs of word characters
IsLongWord(w) == Len(w) >= 13

LongWords(text) == SelectSeq(Split(text, NonWordCh), IsLongWord)

\* whether pat (word characters at both ends) matches at position i of s
\* between two \b, ignoring case
MatchesWordAt(s, i, pat) ==
  /\ i + Len(pat) - 1 <= Len(s)
  /\ \A k \in 1..Len(pat) : LowerChar(s[i + k - 1]) = pat[k]
  /\ (i = 1 \/ s[i - 1] \notin WordCh)
  /\ (i + Len(pat) > Len(s) \/ s[i + Len(pat)] \notin WordCh)

PassivePatterns ==
  { <<"f", "u", "e">>,
    <<"f", "u", "e", "r", "o", "n">>,
    <<"h", "a", " ", "s", "i", "d", "o">>,
    <<"h", "a", "n", " ", "s", "i", "d", "o">> }

\* text.match(/\b(fue|fueron|ha sido|han sido)\b/gi) is not null
HasPassiveVoice(text) ==
  \E i \in 1..Len(text) : \E pat \in PassivePatterns : MatchesWordAt(text, i, pat)

\* String.prototype.includes
Includes(text, pat) ==
  \E i \in 1..(Len(text) - Len(pat) + 1) :
    \A k \in 1..Len(pat) : text[i + k - 1] = pat[k]

Indices(seq) == [i \in 1..Len(seq) |-> i]

\* the word count above which every stage calls a sentence too long
LongSentenceWords == 30

(***************************************************************************)
(* AnalyzerAgent                                                           *)
(***************************************************************************)
ShortTextWords == 100

WebMarkers ==
  { <<"m", "e", "t", "a">>, <<"t", "í", "t", "u", "l", "o">>, <<"S", "E", "O">> }

\* AnalyzerAgent._classifyText
ClassifyText(text, context) ==
  IF SplitLength(text) < ShortTextWords THEN "short"
  ELSE IF context.isWebPage THEN "web"
  ELSE IF \E m \in WebMarkers : Includes(text, m) THEN "web"
  ELSE "document"

\* AnalyzerAgent._detectIssues
AnalyzerDetectIssues(text) ==
  LET sentences == Sentences(text)
      long == SelectSeq(Indices(sentences),
                        LAMBDA i : TrimSplitLength(sentences[i]) > LongSentenceWords)
      lengthIssues == [k \in 1..Len(long) |->
                         [type |-> "sentence_length",
                          sentence |-> long[k],
                          words |-> TrimSplitLength(sentences[long[k]]),
                          text |-> Trim(sentences[long[k]])]]
      longWords == LongWords(text)
  IN IF Len(longWords) > 0
     THEN Append(lengthIssues,
                 [type |-> "complex_vocabulary",
                  count |-> Len(longWords),
                  examples |-> Slice(longWords, 3)])
     ELSE lengthIssues

\* AnalyzerAgent._recommendAgents
RecommendAgents(classification, issues) ==
  LET base == IF Len(issues) > 2 \/ classification = "document"
              THEN <<"style", "grammar", "validator">>
              ELSE <<"grammar", "validator">>
  IN IF classification = "web" THEN Append(base, "seo") ELSE base

\* AnalyzerAgent._assessSeverity
AssessSeverity(issues) ==
  IF Len(issues) >= 3 THEN "high"
  ELSE IF Len(issues) >= 2 THEN "medium"
  ELSE "low"

\* AnalyzerAgent.analyze
AnalyzerAnalyze(text, context) ==
  LET classification == ClassifyText(text, context)
      issues == AnalyzerDetectIssues(text)
  IN [agent |-> "Analyzer",
      classification |-> classification,
      issues |-> issues,
      recommendedAgents |-> RecommendAgents(classification, issues),
      severity |-> AssessSeverity(issues)]

(***************************************************************************)
(* RewriterAgent (the parts around the request)                            *)
(***************************************************************************)
\* RewriterAgent._detectIssues
RewriterDetectIssues(text) ==
  LET sentences == Sentences(text)
  IN (IF \E i \in 1..Len(sentences) : TrimSplitLength(sentences[i]) > LongSentenceWords
      THEN <<"long_sentences">> ELSE << >>)
     \o (IF HasPassiveVoice(text) THEN <<"passive_voice">> ELSE << >>)
     \o (IF Len(LongWords(text)) > 0 THEN <<"complex_vocabulary">> ELSE << >>)

\* RewriterAgent._buildRewritePrompt: the fixed heading, one directive line for
\* each detected issue, then the text verbatim
BuildRewritePrompt(text, issues) ==
  [directives |-> issues, text |-> text]

\* parseFloat-free (num / den).toFixed(1), in tenths
ToFixed1(num, den) == (20 * num + den) \div (2 * den)

\* the drop in mean sentence length that _identifyImprovements reports
ReductionWords == 3

\* a drop of exactly three words reported as well
IdentifyImprovementsFromThree(original, rewritten) ==
  LET origSentences == Sentences(original)
      rewritSentences == Sentences(rewritten)
      origSum == SumSplitLength(origSentences)
      rewSum == SumSplitLength(rewritSentences)
      origLen == IF Len(origSentences) = 0 THEN 1 ELSE Len(origSentences)
      rewLen == IF Len(rewritSentences) = 0 THEN 1 ELSE Len(rewritSentences)
  IN (IF Len(rewritSentences) > Len(origSentences)
      THEN << [type |-> "structure"] >> ELSE << >>)
     \o
     (IF rewSum * origLen <= origSum * rewLen - ReductionWords * origLen * rewLen
      THEN << [type |-> "sentence_length",
               origAvg |-> ToFixed1(origSum, origLen),
               rewAvg |-> ToFixed1(rewSum, rewLen)] >>
      ELSE << >>)

\* RewriterAgent._identifyImprovements
IdentifyImprovements(original, rewritten) ==
  LET origSentences == Sentences(original)
      rewritSentences == Sentences(rewritten)
      origSum == SumSplitLength(origSentences)
      rewSum == SumSplitLength(rewritSentences)
      origLen == IF Len(origSentences) = 0 THEN 1 ELSE Len(origSentences)
      rewLen == IF Len(rewritSentences) = 0 THEN 1 ELSE Len(rewritSentences)
  IN (IF Len(rewritSentences) > Len(origSentences)
      THEN << [type |-> "structure"] >> ELSE << >>)
     \o
     \* rewAvg < origAvg - 3
     (IF rewSum * origLen < origSum * rewLen - ReductionWords * origLen * rewLen
      THEN << [type |-> "sentence_length",
               origAvg |-> ToFixed1(origSum, origLen),
               rewAvg |-> ToFixed1(rewSum, rewLen)] >>
      ELSE << >>)

(***************************************************************************)
(* GrammarAgent                                                            *)
(***************************************************************************)
\* the maximal runs of word characters of text, as <<first, last>> positions
WordRuns(text) ==
  LET starts == SelectSeq(Indices(text),
                          LAMBDA i : text[i] \in WordCh
                                     /\ (i = 1 \/ text[i - 1] \notin WordCh))
      EndOf(i) == CHOOSE j \in i..Len(text) :
                    /\ \A k \in i..j : text[k] \in WordCh
                    /\ (j = Len(text) \/ text[j + 1] \notin WordCh)
  IN [k \in 1..Len(starts) |-> <<starts[k], EndOf(starts[k])>>]

\* whether /\b(\w+)\s+\1\b/i matches from the start of run a to the end of run b
RepeatsAt(text, a, b) ==
  /\ \A k \in (a[2] + 1)..(b[1] - 1) : text[k] \in WS
  /\ ToLowerCase(SubSeq(text, a[1], a[2])) = ToLowerCase(SubSeq(text, b[1], b[2]))

\* text.match(/\b(\w+)\s+\1\b/gi): the matches left to right, none overlapping.
\* A match takes two words, so the search resumes at the word after them: of
\* a streak of repeating pairs the first, the third, ... are matches.
RepeatedWords(text) ==
  LET words == WordRuns(text)
      Repeats(k) == RepeatsAt(text, words[k], words[k + 1])
      StreakStart(k) ==
        CHOOSE j \in 1..k : /\ \A i \in j..k : Repeats(i)
                            /\ (j = 1 \/ ~Repeats(j - 1))
      pairs == [k \in 1..(Len(words) - 1) |-> k]
      matches == SelectSeq(pairs,
                           LAMBDA k : Repeats(k) /\ (k - StreakStart(k)) % 2 = 0)
  IN [m \in 1..Len(matches) |->
        SubSeq(text, words[matches[m]][1], words[matches[m] + 1][2])]

\* GrammarAgent._findGrammarIssues
FindGrammarIssues(text) ==
  LET repeatedWords == RepeatedWords(text)
  IN IF Len(repeatedWords) > 0
     THEN << [type |-> "grammar", examples |-> Slice(repeatedWords, 3)] >>
     ELSE << >>

\* GrammarAgent.analyze
GrammarAnalyze(text, context) ==
  [agent |-> "Grammar", issues |-> FindGrammarIssues(text), correctedText |-> text]

(***************************************************************************)
(* StyleAgent                                                              *)
(***************************************************************************)
\* StyleAgent._findStyleIssues
FindStyleIssues(text) ==
  LET sentences == Sentences(text)
      long == SelectSeq(Indices(sentences),
                        LAMBDA i : TrimSplitLength(sentences[i]) > LongSentenceWords)
      lengthIssues == [k \in 1..Len(long) |->
                         [type |-> "style",
                          issue |-> "long_sentence",
                          sentence |-> long[k],
                          words |-> TrimSplitLength(sentences[long[k]])]]
  IN IF HasPassiveVoice(text)
     THEN Append(lengthIssues, [type |-> "style", issue |-> "passive_voice"])
     ELSE lengthIssues

\* the mean sentence length that scores best, and the span over which the
\* score falls to nothing
IdealWords == 15

ScoreSpan == 30

\* StyleAgent._calculateReadability, in hundredths:
\* max(0, min(1, 1 - |avgLength - 15| / 30)) with avgLength = sum / n
CalculateReadability(text) ==
  LET sentences == Sentences(text)
      n == Len(sentences)
      sum == SumSplitLength(sentences)
      num == ScoreSpan * n - Abs(sum - IdealWords * n)
      den == ScoreSpan * n
      clamped == IF num < 0 THEN 0 ELSE IF num > den THEN den ELSE num
  IN IF n = 0 THEN 0 ELSE ToFixed2(clamped, den)

\* StyleAgent.analyze
StyleAnalyze(text, context) ==
  [agent |-> "Style",
   styleIssues |-> FindStyleIssues(text),
   readabilityScore |-> CalculateReadability(text)]

(***************************************************************************)
(* SEOAgent                                                                *)
(***************************************************************************)
MaxTitleLength == 60

MaxDescriptionLength == 160

MinKeywordLength == 4

MaxKeywordCount == 3

MaxKeywordsListed == 5

\* how many elements of seq equal w
CountOf(seq, w) == Cardinality({j \in 1..Len(seq) : seq[j] = w})

\* the keys of wordFreq in insertion order whose count exceeds 3
FrequentWords(text) ==
  LET words == SelectSeq(Split(ToLowerCase(text), WS),
                         LAMBDA w : Len(w) > MinKeywordLength)
      firsts == SelectSeq(Indices(words),
                          LAMBDA i : \A j \in 1..(i - 1) : words[j] # words[i])
      frequent == SelectSeq(firsts,
                            LAMBDA i : CountOf(words, words[i]) > MaxKeywordCount)
  IN [k \in 1..Len(frequent) |-> words[frequent[k]]]

\* SEOAgent._analyzeSEOElements
AnalyzeSEOElements(text, context) ==
  LET metadata == context.metadata
      repeatedWords == FrequentWords(text)
  IN (IF Len(metadata.title) > MaxTitleLength
      THEN << [type |-> "seo", element |-> "title", length |-> Len(metadata.title)] >>
      ELSE << >>)
     \o
     (IF Len(metadata.metaDescription) = 0
      THEN << [type |-> "seo", element |-> "meta_description", length |-> 0] >>
      ELSE IF Len(metadata.metaDescription) > MaxDescriptionLength
      THEN << [type |-> "seo", element |-> "meta_description",
               length |-> Len(metadata.metaDescription)] >>
      ELSE << >>)
     \o
     (IF Len(repeatedWords) > 0
      THEN << [type |-> "seo", element |-> "keywords",
               words |-> Slice(repeatedWords, MaxKeywordsListed)] >>
      ELSE << >>)

FixedSeoScore == 70

FixedBalanceScore == 65

\* the clarity score capped at 1 as the readability score is
AssessClarityBalanceCapped(text) ==
  LET sentences == Sentences(text)
      n == Len(sentences)
      sum == SumSplitLength(sentences)
      num == ScoreSpan * n - (sum - IdealWords * n)
      den == ScoreSpan * n
  IN IF n = 0 THEN [seoScore |-> 0, clarityScore |-> 0, balanceScore |-> 0]
     ELSE [seoScore |-> FixedSeoScore,
           clarityScore |-> ToFixed2(IF num < 0 THEN 0 ELSE IF num > den THEN den ELSE num,
                                     den),
           balanceScore |-> FixedBalanceScore]

\* SEOAgent._assessClarityBalance, scores in hundredths:
\* clarityScore = max(0, 1 - (avgLength - 15) / 30)
AssessClarityBalance(text) ==
  LET sentences == Sentences(text)
      n == Len(sentences)
      sum == SumSplitLength(sentences)
      num == ScoreSpan * n - (sum - IdealWords * n)
      den == ScoreSpan * n
  IN IF n = 0 THEN [seoScore |-> 0, clarityScore |-> 0, balanceScore |-> 0]
     ELSE [seoScore |-> FixedSeoScore,
           clarityScore |-> ToFixed2(IF num < 0 THEN 0 ELSE num, den),
           balanceScore |-> FixedBalanceScore]

\* SEOAgent.analyze
SEOAnalyze(text, context) ==
  [agent |-> "SEO",
   seoRecommendations |-> AnalyzeSEOElements(text, context),
   clarityBalance |-> AssessClarityBalance(text)]

(***************************************************************************)
(* ValidatorAgent                                                          *)
(***************************************************************************)
OptimalMinWords == 15

OptimalMaxWords == 25

AcceptableMinWords == 10

\* a sentence of exactly 30 words warned about as well
ValidateImprovementsFromThirty(text) ==
  LET sentences == Sentences(text)
      Words(i) == TrimSplitLength(sentences[i])
      noted == SelectSeq(Indices(sentences),
                         LAMBDA i : \/ Words(i) >= LongSentenceWords
                                    \/ (Words(i) >= OptimalMinWords
                                        /\ Words(i) <= OptimalMaxWords))
  IN [k \in 1..Len(noted) |->
        [status |-> IF Words(noted[k]) >= LongSentenceWords THEN "warning" ELSE "success",
         sentence |-> noted[k],
         words |-> Words(noted[k])]]

\* ValidatorAgent._validateImprovements
ValidateImprovements(text) ==
  LET sentences == Sentences(text)
      Words(i) == TrimSplitLength(sentences[i])
      noted == SelectSeq(Indices(sentences),
                         LAMBDA i : \/ Words(i) > LongSentenceWords
                                    \/ (Words(i) >= OptimalMinWords
                                        /\ Words(i) <= OptimalMaxWords))
  IN [k \in 1..Len(noted) |->
        [status |-> IF Words(noted[k]) > LongSentenceWords THEN "warning" ELSE "success",
         sentence |-> noted[k],
         words |-> Words(noted[k])]]

\* the bands without their ends
SentenceScoreOpen(words) ==
  IF words > AcceptableMinWords /\ words < LongSentenceWords
  THEN (IF words > OptimalMinWords /\ words < OptimalMaxWords THEN 10 ELSE 7)
  ELSE 3

\* what one sentence adds to the quality score, in tenths
SentenceScore(words) ==
  IF words >= AcceptableMinWords /\ words <= LongSentenceWords
  THEN (IF words >= OptimalMinWords /\ words <= OptimalMaxWords THEN 10 ELSE 7)
  ELSE 3

RECURSIVE SumSentenceScores(_)
SumSentenceScores(ss) ==
  IF ss = << >> THEN 0
  ELSE SentenceScore(TrimSplitLength(Head(ss))) + SumSentenceScores(Tail(ss))

\* ValidatorAgent._calculateQualityScore, in hundredths
CalculateQualityScore(text) ==
  LET sentences == Sentences(text)
  IN IF Len(sentences) = 0 THEN 0
     ELSE ToFixed2(SumSentenceScores(sentences), 10 * Len(sentences))

\* ValidatorAgent._checkCompliance
CheckCompliance(text) ==
  LET sentences == Sentences(text)
      n == Len(sentences)
  IN << [criterion |-> "Oraciones completas", passed |-> n > 0],
        [criterion |-> "Longitud promedio adecuada",
         \* avgLength <= 30, avgLength being 0 without sentences
         passed |-> IF n > 0 THEN SumSplitLength(sentences) <= LongSentenceWords * n
                    ELSE TRUE],
        [criterion |-> "Puntuación apropiada",
         passed |-> \E i \in 1..Len(text) : text[i] \in Punct],
        [criterion |-> "Contenido no vacío", passed |-> Len(Trim(text)) > 0] >>

\* ValidatorAgent.analyze
ValidatorAnalyze(text, context) ==
  [agent |-> "Validator",
   validation |-> ValidateImprovements(text),
   qualityScore |-> CalculateQualityScore(text),
   compliance |-> CheckCompliance(text)]

(***************************************************************************)
(* Texts, metadata and settings the model draws its inputs from            *)
(***************************************************************************)
Repeat(c, n) == [i \in 1..n |-> c]

\* n words separated by single spaces, the words w1 and w2 alternating
Alternate(n, w1, w2) ==
  LET period == Len(w1) + Len(w2) + 2
      length == (n \div 2) * period + (n % 2) * (Len(w1) + 1) - 1
      CharAt(q) == IF q < Len(w1) THEN w1[q + 1]
                   ELSE IF q = Len(w1) THEN " "
                   ELSE IF q < period - 1 THEN w2[q - Len(w1)]
                   ELSE " "
  IN [p \in 1..length |-> CharAt((p - 1) % period)]

PlainWords(n) == Alternate(n, <<"l", "a">>, <<"c", "a", "s", "a">>)

KeyWords(n) == Alternate(n, <<"t", "e", "x", "t", "o">>, <<"d", "e">>)

\* how many words the longest sentence drawn has beyond the 30 of a long one
ExtraWords == 10

\* a text too short for the popup: one sentence of three words
TextShort == PlainWords(3) \o <<".">>

\* two sentences, the second after a space
TextTwo == PlainWords(6) \o <<".", " ">> \o PlainWords(4) \o <<".">>

\* one sentence longer than 30 words with a passive marker
TextLong ==
  PlainWords(LongSentenceWords + ExtraWords - 1) \o <<" ", "f", "u", "e", ".">>

TextBlank == <<" ", "\n">>

\* more than 100 words: three long sentences and a word of 13 letters
TextWeb ==
  PlainWords(LongSentenceWords + 5) \o <<".", " ">>
  \o PlainWords(LongSentenceWords + 5) \o <<"!", " ">>
  \o PlainWords(LongSentenceWords + 5) \o <<" ">> \o Repeat("x", 13) \o <<".">>

\* rewritten texts the completion service may answer with
RewriteSplit ==
  PlainWords(20) \o <<".", " ">> \o PlainWords(LongSentenceWords - ExtraWords) \o <<".">>

RewriteRich ==
  <<"F", "u", "e", " ", "f", "u", "e", ".", " ">>
  \o KeyWords(LongSentenceWords + 1) \o <<"!", " ">>
  \o KeyWords(LongSentenceWords + 2) \o <<"?">>

RewriteHuge == PlainWords(2 * LongSentenceWords + ExtraWords) \o <<".">>

RewriteDots == <<".", ".", ".">>

RewriteIdeal == PlainWords(IdealWords) \o <<".">>

\* one sentence of exactly 40 words
TextForty == PlainWords(40) \o <<".">>

\* one sentence of 18 words, three more than RewriteIdeal has
TextEighteen == PlainWords(IdealWords + ReductionWords) \o <<".">>

\* one sentence of 23 words, three more than the mean of RewriteSplit
TextTwentyThree == PlainWords(20 + ReductionWords) \o <<".">>

\* two sentences of 16 and 17 words, the second after a space
TextSixteen == PlainWords(16) \o <<".", " ">> \o PlainWords(17) \o <<".">>

\* two sentences of 30 words each, the second after a space
TextThirties ==
  PlainWords(LongSentenceWords) \o <<".", " ">> \o PlainWords(LongSentenceWords) \o <<".">>

\* sentences of 10, 14, 15, 25, 26, 30 and 31 words, ended in turn by . ! ?
TextBands ==
  PlainWords(AcceptableMinWords) \o <<".", " ">>
  \o PlainWords(OptimalMinWords - 1) \o <<"!", " ">>
  \o PlainWords(OptimalMinWords) \o <<"?", " ">>
  \o PlainWords(OptimalMaxWords) \o <<".", ".", ".", " ">>
  \o PlainWords(OptimalMaxWords + 1) \o <<"!", "\n">>
  \o PlainWords(LongSentenceWords) \o <<"?", " ">>
  \o PlainWords(LongSentenceWords + 1) \o <<".">>

\* 99 words after a space, and the same words with a line break after them
TextPadded == <<" ">> \o PlainWords(ShortTextWords - 1)

TextTrailing == PlainWords(ShortTextWords - 1) \o <<"\n">>

\* 100 words and none of the markers of a web page
TextHundred == PlainWords(ShortTextWords)

\* 100 words, among them SEO, and the same with seo in lower case
TextMarked == PlainWords(ShortTextWords - 1) \o <<" ", "S", "E", "O">>

TextLowerMarked == PlainWords(ShortTextWords - 1) \o <<" ", "s", "e", "o">>

\* 100 words, among them título
TextTitled ==
  PlainWords(ShortTextWords - 1) \o <<" ", "t", "í", "t", "u", "l", "o">>

\* what choices[0].message.content may hold when processText is called directly
Contents == { << >>, RewriteSplit, RewriteRich, RewriteHuge, RewriteDots, RewriteIdeal }

\* and when the popup calls it
PopupContents == { << >>, RewriteSplit }

ContentsFor(caller) == IF caller = "popup" THEN PopupContents ELSE Contents

\* page metadata as extractPageMetadata builds it (the fields the pipeline reads)
Meta(titleLength, descriptionLength) ==
  [title |-> Repeat("t", titleLength),
   metaDescription |-> Repeat("d", descriptionLength)]

\* options.metadata || {}: an absent title and description read as empty
NoMetadata == Meta(0, 0)

Metas == { NoMetadata,
           Meta(MaxTitleLength, MaxDescriptionLength),
           Meta(MaxTitleLength + 1, MaxDescriptionLength + 1) }

ApiKey == <<"k">>

\* values typed into the API key field
KeyInputs == { << >>, <<" ", "k", " ">> }

\* values typed into the character-limit field
LimitInputs ==
  { <<"a", "x">>, <<"1", "2">>, <<"4", "9", "9">>, <<" ", "5", "0", "0", "x">> }

\* texts a direct caller passes to processText
ApiTexts == { << >>, TextBlank, TextTwo, TextLong, TextWeb }

\* texts the content script extracts from a page
PageTexts == { << >>, TextShort, TextTwo }

\* the metadata of the pages
PageMetas == { Meta(MaxTitleLength + 1, MaxDescriptionLength + 1) }

\* texts an agent is handed when it is called on its own
AgentTexts ==
  { << >>, TextBlank, RewriteDots, TextShort, TextTwo, TextLong, TextWeb,
    RewriteSplit, RewriteRich, RewriteHuge, RewriteIdeal,
    TextForty, TextEighteen, TextTwentyThree, TextSixteen, TextThirties, TextBands,
    TextPadded, TextTrailing, TextHundred, TextMarked, TextLowerMarked, TextTitled }

\* the originals and the rewritten texts _identifyImprovements is handed
Originals == { << >>, TextTwo, TextLong, TextEighteen, TextTwentyThree, TextSixteen }

Rewrites == { << >>, RewriteDots, RewriteSplit, RewriteIdeal, TextSixteen, TextBands }

HttpErrorStatuses == { 401, 500 }

\* what response.text() resolves to; a failed read is swallowed as ''
ErrorBodies == { << >>, <<"e", "r", "r">> }

(***************************************************************************)
(* Errors                                                                  *)
(***************************************************************************)
Error(kind) == [kind |-> kind, status |-> 0, body |-> << >>]

\* the error without the response body
ApiErrorWithoutBody(status, body) ==
  [kind |-> "API error", status |-> status, body |-> << >>]

\* new Error(`API error: ${response.status} ${errorBody}`)
ApiError(status, body) == [kind |-> "API error", status |-> status, body |-> body]

NoError == Error("none")

(***************************************************************************)
(* The content script                                                      *)
(***************************************************************************)
\* content.js, the onMessage listener for 'extractText': page.fails says
\* whether extractPageText or extractPageMetadata throws
ExtractText(page) ==
  IF page.fails
  THEN [answered |-> TRUE, success |-> FALSE, text |-> << >>,
        metadata |-> NoMetadata, error |-> Error("extraction failed")]
  ELSE [answered |-> TRUE, success |-> TRUE, text |-> page.text,
        metadata |-> page.metadata, error |-> NoError]

\* sendMessage resolved with undefined
NoAnswer ==
  [answered |-> FALSE, success |-> FALSE, text |-> << >>,
   metadata |-> NoMetadata, error |-> NoError]

Pages ==
  { [fails |-> TRUE, text |-> << >>, metadata |-> NoMetadata] }
  \cup [fails : {FALSE}, text : PageTexts, metadata : PageMetas]

Responses == { NoAnswer } \cup { ExtractText(page) : page \in Pages }

(***************************************************************************)
(* State                                                                   *)
(***************************************************************************)
\* how many calls of startAnalysis or processText the model can hold at once
MaxRuns == 2

Runs == 1..MaxRuns

VARIABLES
  storage,        \* chrome.storage.local: groqApiKey, charLimit (0: not set)
  dom,            \* the popup's fields, button and sections
  progressUi,     \* the progress steps, the bar and completedAgents
  analysisResult, \* popup.js: let analysisResult
  runs            \* every call in flight or finished: its position, its
                  \* arguments and locals, and the events it has produced

vars == <<storage, dom, progressUi, analysisResult, runs>>

\* popup.js: const agentOrder
agentOrder == <<"analyzer", "rewriter", "grammar", "style", "seo", "validator">>

\* a stage result not yet assigned
Null == [agent |-> "null"]

\* AgentCoordinator.processText: const results = {...}
NewResults(text) ==
  [originalText |-> text,
   analysis |-> Null, rewriting |-> Null, grammar |-> Null,
   style |-> Null, seo |-> Null, validation |-> Null,
   finalText |-> text,
   improvements |-> << >>]

\* AgentCoordinator.processText: const context = {...}
Context(run) ==
  [apiKey |-> run.apiKey, isWebPage |-> TRUE, metadata |-> run.metadata]

IdleRun ==
  [pc |-> "idle", caller |-> "none",
   text |-> << >>, apiKey |-> << >>, metadata |-> NoMetadata,
   hasCallback |-> FALSE, isWebPage |-> TRUE,
   results |-> NewResults(<< >>), currentText |-> << >>,
   prompt |-> BuildRewritePrompt(<< >>, << >>), status |-> 0,
   responded |-> FALSE, response |-> NoAnswer,
   trace |-> << >>, outcome |-> "none", error |-> NoError,
   report |-> NewResults(<< >>)]

Event(ev, name, text) == [ev |-> ev, name |-> name, text |-> text]

\* resetProgress
ResetProgress ==
  [classes |-> [a \in {agentOrder[i] : i \in 1..Len(agentOrder)} |-> {}],
   completedAgents |-> {},
   bar |-> 0]

IndexOf(name) == CHOOSE i \in 1..Len(agentOrder) : agentOrder[i] = name

\* updateProgress
UpdateProgress(ui, agentName) ==
  IF agentName = "done"
  THEN [ui EXCEPT !.classes = [a \in DOMAIN ui.classes |-> {"completed"}],
                  !.bar = 100]
  ELSE LET before == {agentOrder[i] : i \in 1..(IndexOf(agentName) - 1)}
       IN [classes |-> [a \in DOMAIN ui.classes |->
                          IF a \in before THEN {"completed"}
                          ELSE IF a = agentName THEN {"active"}
                          ELSE ui.classes[a]],
           completedAgents |-> ui.completedAgents \cup before,
           \* Math.round((currentIndex / agentOrder.length) * 100)
           bar |-> (200 * (IndexOf(agentName) - 1) + Len(agentOrder))
                   \div (2 * Len(agentOrder))]

Init ==
  /\ storage = [groqApiKey |-> << >>, charLimit |-> 0]
  /\ dom = [apiKey |-> << >>, charLimit |-> << >>,
            btnDisabled |-> FALSE,
            errorVisible |-> FALSE, errorMessage |-> NoError,
            progressVisible |-> FALSE, resultsVisible |-> FALSE,
            pageStats |-> [words |-> 0, sentences |-> 0, characters |-> 0]]
  /\ progressUi = ResetProgress
  /\ analysisResult = Null
  /\ runs = [r \in Runs |-> IdleRun]

InFlight(r) == runs[r].pc \notin {"idle", "done"}

\* a call takes the first place that holds no call in flight
FreeRun(r) == ~InFlight(r) /\ \A q \in 1..(r - 1) : InFlight(q)

(***************************************************************************)
(* How a step of a call ends                                               *)
(***************************************************************************)
\* the call waits at its next await
Suspend(r, run, d, ui) ==
  /\ runs' = [runs EXCEPT ![r] = run]
  /\ dom' = d
  /\ progressUi' = ui
  /\ UNCHANGED <<storage, analysisResult>>

\* the call throws: a direct caller sees processText reject; startAnalysis
\* runs its catch and finally blocks
Throw(r, run, d, ui, err) ==
  /\ runs' = [runs EXCEPT ![r] =
                [run EXCEPT !.pc = "done", !.outcome = "threw", !.error = err]]
  /\ dom' = IF run.caller = "popup"
            THEN [d EXCEPT !.errorVisible = TRUE, !.errorMessage = err,
                           !.progressVisible = FALSE, !.btnDisabled = FALSE]
            ELSE d
  /\ progressUi' = ui
  /\ UNCHANGED <<storage, analysisResult>>

\* processText returns its report: a direct caller receives it; startAnalysis
\* assigns analysisResult, displays it and runs its finally block
Return(r, run, d, ui) ==
  /\ runs' = [runs EXCEPT ![r] =
                [run EXCEPT !.pc = "done", !.outcome = "returned",
                            !.report = run.results]]
  /\ dom' = IF run.caller = "popup"
            THEN [d EXCEPT !.resultsVisible = TRUE, !.btnDisabled = FALSE]
            ELSE d
  /\ analysisResult' = IF run.caller = "popup" THEN run.results ELSE analysisResult
  /\ progressUi' = ui
  /\ UNCHANGED storage

\* onProgress called only for the stages the Analyzer recommended
ProgressedIfRecommended(run, name) ==
  IF name \in {"analyzer", "rewriter", "done"}
     \/ \E i \in 1..Len(run.results.analysis.recommendedAgents) :
          run.results.analysis.recommendedAgents[i] = name
  THEN [run EXCEPT !.trace = Append(@, Event("progress", name, << >>))]
  ELSE run

\* onProgress(name, ...): the popup passes updateProgress; a direct caller's
\* callback, when it passes one, may throw
Progressed(run, name) ==
  [run EXCEPT !.trace = Append(@, Event("progress", name, << >>))]

UiAfter(run, name) ==
  IF run.caller = "popup" THEN UpdateProgress(progressUi, name) ELSE progressUi

CallbackOutcomes(run) ==
  IF run.caller = "direct" /\ run.hasCallback THEN {"ok", "throws"} ELSE {"ok"}

Called(run, stage, text) ==
  [run EXCEPT !.trace = Append(@, Event("call", stage, text))]

Returned(run, stage) ==
  [run EXCEPT !.trace = Append(@, Event("return", stage, << >>))]

(***************************************************************************)
(* AgentCoordinator.processText and RewriterAgent.analyze, step by step    *)
(***************************************************************************)
\* processText up to its first await: the results and the context are built,
\* onProgress('analyzer') is called and the Analyzer is invoked
StartProcessText(r, run, d, callback) ==
  LET started == Progressed([run EXCEPT !.results = NewResults(run.text)], "analyzer")
  IN IF callback = "throws"
     THEN Throw(r, started, d, progressUi, Error("onProgress threw"))
     ELSE Suspend(r, [Called(started, "analyzer", run.text) EXCEPT !.pc = "analyzer"],
                  d, UiAfter(run, "analyzer"))

\* findings put in front of those already collected
PushedInFront(results, findings) ==
  [results EXCEPT !.improvements = findings \o @]

\* results.rewriting.improvements and the like, pushed onto results.improvements
Pushed(results, findings) ==
  [results EXCEPT !.improvements = @ \o findings]

\* no check of the credential
MissingKeyIgnored(context) == FALSE

\* RewriterAgent.analyze: if (!apiKey)
MissingKey(context) == Len(context.apiKey) = 0

\* the Analyzer's result arrives; onProgress('rewriter'); RewriterAgent.analyze
\* runs up to its fetch
AnalyzerReturns(r) ==
  /\ runs[r].pc = "analyzer"
  /\ \E callback \in CallbackOutcomes(runs[r]) :
       LET run == runs[r]
           analysed == [Returned(run, "analyzer") EXCEPT
                          !.results.analysis = AnalyzerAnalyze(run.text, Context(run))]
           announced == Progressed(analysed, "rewriter")
           invoked == Called(announced, "rewriter", run.text)
           issues == RewriterDetectIssues(run.text)
           prompt == BuildRewritePrompt(run.text, issues)
       IN IF callback = "throws"
          THEN Throw(r, announced, dom, progressUi, Error("onProgress threw"))
          ELSE IF MissingKey(Context(run))
          THEN Throw(r, invoked, dom, UiAfter(run, "rewriter"), Error("API key requerida"))
          ELSE Suspend(r,
                       [invoked EXCEPT
                          !.pc = "fetch",
                          !.prompt = prompt,
                          !.trace = Append(@, Event("request", "fetch", prompt.text))],
                       dom, UiAfter(run, "rewriter"))

\* the status of a fetch that rejected, having no response
NoResponseStatus == 0

OkStatus == 200

\* Response.ok
ResponseOk(status) == status >= 200 /\ status <= 299

\* fetch settles, and a failed request is issued once more
FetchSettlesRetrying(r) ==
  /\ runs[r].pc = "fetch"
  /\ \E status \in {NoResponseStatus, OkStatus} \cup HttpErrorStatuses :
       IF status = NoResponseStatus /\ Len(SelectSeq(runs[r].trace,
                                                      LAMBDA e : e.ev = "request")) < 2
       THEN Suspend(r, [runs[r] EXCEPT
                          !.trace = Append(@, Event("request", "fetch",
                                                    runs[r].prompt.text))],
                    dom, progressUi)
       ELSE IF status = NoResponseStatus
       THEN Throw(r, runs[r], dom, progressUi, Error("Failed to fetch"))
       ELSE IF ResponseOk(status)
       THEN Suspend(r, [runs[r] EXCEPT !.pc = "json", !.status = status],
                    dom, progressUi)
       ELSE Suspend(r, [runs[r] EXCEPT !.pc = "errorBody", !.status = status],
                    dom, progressUi)

\* fetch settles: the network fails, or a response arrives with its status
FetchSettles(r) ==
  /\ runs[r].pc = "fetch"
  /\ \E status \in {NoResponseStatus, OkStatus} \cup HttpErrorStatuses :
       IF status = NoResponseStatus
       THEN Throw(r, runs[r], dom, progressUi, Error("Failed to fetch"))
       ELSE IF ResponseOk(status)
       THEN Suspend(r, [runs[r] EXCEPT !.pc = "json", !.status = status],
                    dom, progressUi)
       ELSE Suspend(r, [runs[r] EXCEPT !.pc = "errorBody", !.status = status],
                    dom, progressUi)

\* response.text().catch(() => '') settles and the Rewriter throws
ErrorBodySettles(r) ==
  /\ runs[r].pc = "errorBody"
  /\ \E readable \in BOOLEAN, body \in ErrorBodies :
       LET errorBody == IF readable THEN body ELSE << >>
           read == [runs[r] EXCEPT
                      !.trace = Append(@, Event("body",
                                                IF readable THEN "read" ELSE "unreadable",
                                                body))]
       IN Throw(r, read, dom, progressUi, ApiError(runs[r].status, errorBody))

\* the current text never reassigned
CurrentTextKept(rewrittenText, text) == text

\* let currentText = results.rewriting.rewrittenText || text
CurrentText(rewrittenText, text) ==
  IF Len(rewrittenText) > 0 THEN rewrittenText ELSE text

\* RewriterAgent.analyze after response.json()
RewriterResult(text, rewrittenText, issues) ==
  [agent |-> "Rewriter",
   originalText |-> text,
   rewrittenText |-> rewrittenText,
   improvements |-> IdentifyImprovements(text, rewrittenText),
   issuesDetected |-> issues]

\* response.json() settles: a body without choices[0].message.content as a
\* string makes the Rewriter throw; otherwise the Rewriter returns, the current
\* text is set, onProgress('grammar') is called and the Grammar stage invoked
JsonSettles(r) ==
  /\ runs[r].pc = "json"
  /\ \E wellFormed \in BOOLEAN, content \in ContentsFor(runs[r].caller) :
       \E callback \in CallbackOutcomes(runs[r]) :
         LET run == runs[r]
             rewriting == RewriterResult(run.text, content, run.prompt.directives)
             currentText == CurrentText(rewriting.rewrittenText, run.text)
             rewritten == [Returned(run, "rewriter") EXCEPT
                             !.results = Pushed([@ EXCEPT !.rewriting = rewriting],
                                                rewriting.improvements),
                             !.currentText = currentText,
                             !.trace = Append(@, Event("assign", "currentText",
                                                       currentText))]
             announced == Progressed(rewritten, "grammar")
         IN IF ~wellFormed
            THEN Throw(r, run, dom, progressUi, Error("malformed response"))
            ELSE IF callback = "throws"
            THEN Throw(r, announced, dom, progressUi, Error("onProgress threw"))
            ELSE Suspend(r, [Called(announced, "grammar", currentText)
                               EXCEPT !.pc = "grammar"],
                         dom, UiAfter(run, "grammar"))

\* a read-only stage's result arrives and is merged; onProgress(next) is called
\* and the next stage invoked on the current text
StageReturns(r, stage, merged, next) ==
  \E callback \in CallbackOutcomes(runs[r]) :
    LET run == runs[r]
        done == [Returned(run, stage) EXCEPT !.results = merged]
        announced == Progressed(done, next)
    IN IF callback = "throws"
       THEN Throw(r, announced, dom, progressUi, Error("onProgress threw"))
       ELSE Suspend(r, [Called(announced, next, run.currentText) EXCEPT !.pc = next],
                    dom, UiAfter(run, next))

GrammarReturns(r) ==
  /\ runs[r].pc = "grammar"
  /\ LET grammar == GrammarAnalyze(runs[r].currentText, Context(runs[r]))
     IN StageReturns(r, "grammar",
                     Pushed([runs[r].results EXCEPT !.grammar = grammar], grammar.issues),
                     "style")

StyleReturns(r) ==
  /\ runs[r].pc = "style"
  /\ LET style == StyleAnalyze(runs[r].currentText, Context(runs[r]))
     IN StageReturns(r, "style",
                     Pushed([runs[r].results EXCEPT !.style = style], style.styleIssues),
                     "seo")

SeoReturns(r) ==
  /\ runs[r].pc = "seo"
  /\ LET seo == SEOAnalyze(runs[r].currentText, Context(runs[r]))
     IN StageReturns(r, "seo",
                     Pushed([runs[r].results EXCEPT !.seo = seo], seo.seoRecommendations),
                     "validator")

\* the Validator's result arrives; finalText is set, onProgress('done') is
\* called and the report returned
ValidatorReturns(r) ==
  /\ runs[r].pc = "validator"
  /\ \E callback \in CallbackOutcomes(runs[r]) :
       LET run == runs[r]
           validated == [Returned(run, "validator") EXCEPT
                           !.results.validation =
                              ValidatorAnalyze(run.currentText, Context(run)),
                           !.results.finalText = run.currentText]
           announced == Progressed(validated, "done")
       IN IF callback = "throws"
          THEN Throw(r, announced, dom, progressUi, Error("onProgress threw"))
          ELSE Return(r, announced, dom, UiAfter(run, "done"))

\* a caller other than the popup calls processText(text, options)
CallProcessText(r) ==
  /\ FreeRun(r)
  /\ \A q \in Runs : ~InFlight(q)
  /\ \E text \in ApiTexts, apiKey \in {<< >>, ApiKey}, metadata \in Metas,
        hasCallback \in BOOLEAN :
       LET run == [IdleRun EXCEPT !.caller = "direct", !.text = text,
                                  !.apiKey = apiKey, !.metadata = metadata,
                                  !.hasCallback = hasCallback]
       IN \E callback \in CallbackOutcomes(run) :
            StartProcessText(r, run, dom, callback)

(***************************************************************************)
(* The agents called on their own                                          *)
(***************************************************************************)
\* the context an agent is handed by a caller other than processText
AgentContext(run) ==
  [apiKey |-> run.apiKey, isWebPage |-> run.isWebPage, metadata |-> run.metadata]

\* a call of one agent's method on text: the run that holds its arguments
AgentRun(text, isWebPage, metadata) ==
  [IdleRun EXCEPT !.caller = "agent", !.text = text, !.currentText = text,
                  !.isWebPage = isWebPage, !.metadata = metadata,
                  !.results = NewResults(text)]

\* the method returns at once: none of the five awaits anything
AgentReturns(r, run, stage) ==
  /\ runs' = [runs EXCEPT ![r] =
                [Returned(Called(run, stage, run.currentText), stage) EXCEPT
                   !.pc = "done", !.outcome = "returned", !.report = run.results]]
  /\ UNCHANGED <<storage, dom, progressUi, analysisResult>>

\* the agents keep nothing from one call to the next, so the first call made
\* stands for every call
FirstCall(r) == FreeRun(r) /\ \A q \in Runs : runs[q].pc = "idle"

\* new AnalyzerAgent().analyze(text, context)
CallAnalyzer(r) ==
  /\ FirstCall(r)
  /\ \E text \in AgentTexts, isWebPage \in BOOLEAN :
       LET run == AgentRun(text, isWebPage, NoMetadata)
       IN AgentReturns(r, [run EXCEPT !.results.analysis =
                                        AnalyzerAnalyze(text, AgentContext(run))],
                       "analyzer")

\* new RewriterAgent()._identifyImprovements(original, rewritten)
CallIdentifyImprovements(r) ==
  /\ FirstCall(r)
  /\ \E original \in Originals, rewritten \in Rewrites :
       LET run == [AgentRun(original, TRUE, NoMetadata) EXCEPT !.currentText = rewritten]
       IN AgentReturns(r, [run EXCEPT !.results.rewriting =
                                        RewriterResult(original, rewritten,
                                                       RewriterDetectIssues(original))],
                       "rewriter")

\* new StyleAgent().analyze(text, context)
CallStyle(r) ==
  /\ FirstCall(r)
  /\ \E text \in AgentTexts :
       LET run == AgentRun(text, TRUE, NoMetadata)
       IN AgentReturns(r, [run EXCEPT !.results.style =
                                        StyleAnalyze(text, AgentContext(run))],
                       "style")

\* new SEOAgent().analyze(text, context)
CallSeo(r) ==
  /\ FirstCall(r)
  /\ \E text \in AgentTexts, metadata \in Metas :
       LET run == AgentRun(text, TRUE, metadata)
       IN AgentReturns(r, [run EXCEPT !.results.seo =
                                        SEOAnalyze(text, AgentContext(run))],
                       "seo")

\* new ValidatorAgent().analyze(text, context)
CallValidator(r) ==
  /\ FirstCall(r)
  /\ \E text \in AgentTexts :
       LET run == AgentRun(text, TRUE, NoMetadata)
       IN AgentReturns(r, [run EXCEPT !.results.validation =
                                        ValidatorAnalyze(text, AgentContext(run))],
                       "validator")

(***************************************************************************)
(* The popup                                                               *)
(***************************************************************************)
MinCharLimit == 500

DefaultCharLimit == 3000

MinTextLength == 20

DigitValue(c) ==
  CASE c = "0" -> 0 [] c = "1" -> 1 [] c = "2" -> 2 [] c = "3" -> 3 [] c = "4" -> 4
    [] c = "5" -> 5 [] c = "6" -> 6 [] c = "7" -> 7 [] c = "8" -> 8 [] c = "9" -> 9

RECURSIVE DigitsPrefix(_, _, _)
DigitsPrefix(s, i, acc) ==
  IF i <= Len(s) /\ s[i] \in Digits
  THEN DigitsPrefix(s, i + 1, 10 * acc + DigitValue(s[i]))
  ELSE acc

\* parseInt(s, 10): leading white space is skipped, a sign is read, then the
\* longest run of digits; NaN when there is no digit
ParseInt(s) ==
  LET t == Trim(s)
      signed == Len(t) > 0 /\ t[1] \in {"-", "+"}
      first == IF signed THEN 2 ELSE 1
      magnitude == DigitsPrefix(t, first, 0)
  IN IF first > Len(t) \/ t[first] \notin Digits
     THEN [nan |-> TRUE, value |-> 0]
     ELSE [nan |-> FALSE,
           value |-> IF signed /\ t[1] = "-" THEN -magnitude ELSE magnitude]

\* the 'change' listener of the API key field
ChangeApiKey ==
  /\ \E value \in KeyInputs :
       /\ dom' = [dom EXCEPT !.apiKey = value]
       /\ storage' = [storage EXCEPT !.groqApiKey = Trim(value)]
  /\ UNCHANGED <<progressUi, analysisResult, runs>>

\* every number written
LimitAcceptedIfNumber(limit) == ~limit.nan

\* whether the 'change' listener of the character-limit field writes
LimitAccepted(limit) == ~limit.nan /\ limit.value >= MinCharLimit

\* the 'change' listener of the character-limit field
ChangeCharLimit ==
  /\ \E value \in LimitInputs :
       LET limit == ParseInt(value)
       IN /\ dom' = [dom EXCEPT !.charLimit = value]
          /\ storage' = IF LimitAccepted(limit)
                        THEN [storage EXCEPT !.charLimit = limit.value]
                        ELSE storage
  /\ UNCHANGED <<progressUi, analysisResult, runs>>

\* text.split(/\s+/).filter(w => w).length
WordCount(text) == Len(SelectSeq(Split(text, WS), LAMBDA w : Len(w) > 0))

\* showPageInfo
ShowPageInfo(d, text) ==
  [d EXCEPT !.pageStats = [words |-> WordCount(text),
                           sentences |-> Len(Sentences(text)),
                           characters |-> Len(text)]]

\* String.prototype.substring(0, n)
Substring(text, n) ==
  SubSeq(text, 1, IF n < 0 THEN 0 ELSE IF n > Len(text) THEN Len(text) ELSE n)

\* startAnalysis: the text handed to processText
Truncated(text, limitField) ==
  LET parsed == ParseInt(limitField)
      charLimit == IF parsed.nan \/ parsed.value = 0
                   THEN DefaultCharLimit ELSE parsed.value
  IN IF Len(text) > charLimit
     THEN Substring(text, charLimit) \o <<".", ".", ".">>
     ELSE text

\* startAnalysis leaving the button enabled
ClickAnalyzeButtonLeft(r) ==
  /\ ~dom.btnDisabled
  /\ FreeRun(r)
  /\ LET apiKey == Trim(dom.apiKey)
     IN IF Len(apiKey) = 0
        THEN /\ dom' = [dom EXCEPT !.errorVisible = TRUE,
                                   !.errorMessage = Error("missing API key")]
             /\ UNCHANGED <<storage, progressUi, analysisResult, runs>>
        ELSE /\ storage' = [storage EXCEPT !.groqApiKey = apiKey]
             /\ dom' = [dom EXCEPT !.errorVisible = FALSE,
                                   !.resultsVisible = FALSE, !.progressVisible = TRUE]
             /\ progressUi' = ResetProgress
             /\ runs' = [runs EXCEPT ![r] =
                           [IdleRun EXCEPT !.pc = "tabsQuery", !.caller = "popup",
                                           !.apiKey = apiKey, !.hasCallback = TRUE]]
             /\ UNCHANGED analysisResult

\* startAnalysis up to its first await: a click on the analyze button, which
\* the browser delivers only while the button is enabled
ClickAnalyze(r) ==
  /\ ~dom.btnDisabled
  /\ FreeRun(r)
  /\ LET apiKey == Trim(dom.apiKey)
     IN IF Len(apiKey) = 0
        THEN /\ dom' = [dom EXCEPT !.errorVisible = TRUE,
                                   !.errorMessage = Error("missing API key")]
             /\ UNCHANGED <<storage, progressUi, analysisResult, runs>>
        ELSE /\ storage' = [storage EXCEPT !.groqApiKey = apiKey]
             /\ dom' = [dom EXCEPT !.errorVisible = FALSE, !.btnDisabled = TRUE,
                                   !.resultsVisible = FALSE, !.progressVisible = TRUE]
             /\ progressUi' = ResetProgress
             /\ runs' = [runs EXCEPT ![r] =
                           [IdleRun EXCEPT !.pc = "tabsQuery", !.caller = "popup",
                                           !.apiKey = apiKey, !.hasCallback = TRUE]]
             /\ UNCHANGED analysisResult

\* chrome.tabs.query settles: no active tab, a browser page, or a web page
TabsQuerySettles(r) ==
  /\ runs[r].pc = "tabsQuery"
  /\ \E tab \in {"none", "internal", "page"} :
       IF tab = "none"
       THEN Throw(r, runs[r], dom, progressUi, Error("no active tab"))
       ELSE IF tab = "internal"
       THEN Throw(r, runs[r], dom, progressUi, Error("internal page"))
       ELSE Suspend(r, [runs[r] EXCEPT !.pc = "sendMessage"], dom, progressUi)

\* only a missing text refused
InsufficientTextIfEmpty(text) == Len(text) = 0

\* startAnalysis: if (!text || text.trim().length < 20)
InsufficientText(text) == Len(text) = 0 \/ Len(Trim(text)) < MinTextLength

\* startAnalysis once a response is in hand
HandleResponse(r, response) ==
  LET run == [runs[r] EXCEPT !.responded = TRUE, !.response = response]
      shown == ShowPageInfo(dom, response.text)
      truncatedText == Truncated(response.text, dom.charLimit)
  IN IF ~response.answered \/ ~response.success
     THEN Throw(r, run, dom, progressUi,
                IF response.answered /\ response.error # NoError
                THEN response.error ELSE Error("no text extracted"))
     ELSE IF InsufficientText(response.text)
     THEN Throw(r, run, dom, progressUi, Error("not enough text"))
     ELSE StartProcessText(r,
                           [run EXCEPT !.text = truncatedText,
                                       !.metadata = response.metadata],
                           shown, "ok")

\* the first chrome.tabs.sendMessage settles: it rejects when the tab has no
\* content script, and the script is then injected
SendMessageSettles(r) ==
  /\ runs[r].pc = "sendMessage"
  /\ \E received \in BOOLEAN, response \in Responses :
       IF received
       THEN HandleResponse(r, response)
       ELSE Suspend(r, [runs[r] EXCEPT !.pc = "executeScript"], dom, progressUi)

\* chrome.scripting.executeScript settles
ExecuteScriptSettles(r) ==
  /\ runs[r].pc = "executeScript"
  /\ \E injected \in BOOLEAN :
       IF injected
       THEN Suspend(r, [runs[r] EXCEPT !.pc = "sendMessageAgain"], dom, progressUi)
       ELSE Throw(r, runs[r], dom, progressUi, Error("cannot inject"))

\* the second chrome.tabs.sendMessage settles
SendMessageAgainSettles(r) ==
  /\ runs[r].pc = "sendMessageAgain"
  /\ \E received \in BOOLEAN, response \in Responses :
       IF received
       THEN HandleResponse(r, response)
       ELSE Throw(r, runs[r], dom, progressUi, Error("no receiver"))

(***************************************************************************)
(* Specifications                                                          *)
(***************************************************************************)
\* a step of a call inside processText
PipelineStep(r) ==
  \/ AnalyzerReturns(r)
  \/ FetchSettles(r)
  \/ ErrorBodySettles(r)
  \/ JsonSettles(r)
  \/ GrammarReturns(r)
  \/ StyleReturns(r)
  \/ SeoReturns(r)
  \/ ValidatorReturns(r)

\* the popup: its listeners and the calls of startAnalysis
Next ==
  \/ ChangeApiKey
  \/ ChangeCharLimit
  \/ \E r \in Runs :
       \/ ClickAnalyze(r)
       \/ TabsQuerySettles(r)
       \/ SendMessageSettles(r)
       \/ ExecuteScriptSettles(r)
       \/ SendMessageAgainSettles(r)
       \/ PipelineStep(r)

Spec == Init /\ [][Next]_vars

\* processText called directly, with any options
NextApi == \E r \in Runs : CallProcessText(r) \/ PipelineStep(r)

SpecApi == Init /\ [][NextApi]_vars

\* each agent called on its own, with any text and context
NextAgents ==
  \E r \in Runs :
    \/ CallAnalyzer(r)
    \/ CallIdentifyImprovements(r)
    \/ CallStyle(r)
    \/ CallSeo(r)
    \/ CallValidator(r)

SpecAgents == Init /\ [][NextAgents]_vars

(***************************************************************************)
(* Properties                                                              *)
(***************************************************************************)
\* the events of one kind a call has produced, in order
EventsOf(run, ev) == SelectSeq(run.trace, LAMBDA e : e.ev = ev)

NamesOf(events) == [i \in 1..Len(events) |-> events[i].name]

\* the first arguments onProgress was called with, in order
ProgressNames(run) == NamesOf(EventsOf(run, "progress"))

\* the stages invoked, in order
StagesCalled(run) == NamesOf(EventsOf(run, "call"))

IsPrefix(a, b) == Len(a) <= Len(b) /\ a = SubSeq(b, 1, Len(a))

ProgressOrder == agentOrder \o <<"done">>

LaterNames == {"grammar", "style", "seo", "validator", "done"}

Finished(r) == runs[r].pc = "done"

ReturnedReport(r) == Finished(r) /\ runs[r].outcome = "returned"

Aborted(r) == Finished(r) /\ runs[r].outcome = "threw"

\* C1, as stated: every run of processText calls onProgress with exactly
\* analyzer, rewriter, grammar, style, seo, validator, done, in that order.
C1_EveryRunAnnouncesAll ==
  \A r \in Runs : Finished(r) => ProgressNames(runs[r]) = ProgressOrder

\* C1, amended: in every run the names onProgress has been called with are a
\* prefix of analyzer, rewriter, grammar, style, seo, validator, done, whatever
\* the Analyzer classified or recommended; a run that returns a report has
\* made all seven calls, each once.
C1_ProgressOrder ==
  \A r \in Runs :
    /\ IsPrefix(ProgressNames(runs[r]), ProgressOrder)
    /\ ReturnedReport(r) => ProgressNames(runs[r]) = ProgressOrder

\* a report is returned after all seven calls although the Analyzer classified
\* the text as web, recommended the Style stage and found it severe
C1_Witness ==
  \E r \in Runs :
    /\ ReturnedReport(r)
    /\ ProgressNames(runs[r]) = ProgressOrder
    /\ runs[r].report.analysis.classification = "web"
    /\ runs[r].report.analysis.recommendedAgents = <<"style", "grammar", "validator", "seo">>

\* C2: the improvements of a returned report are rewriting.improvements,
\* grammar.issues, style.styleIssues and seo.seoRecommendations concatenated in
\* that order, nothing dropped, merged or added.
C2_ImprovementsConcatenated ==
  \A r \in Runs :
    ReturnedReport(r) =>
      LET report == runs[r].report
      IN report.improvements =
           report.rewriting.improvements \o report.grammar.issues
           \o report.style.styleIssues \o report.seo.seoRecommendations

\* a report whose four lists are all non-empty, two of them with a repeated
\* kind of finding, while the Analyzer found issues of its own
C2_Witness ==
  \E r \in Runs :
    /\ ReturnedReport(r)
    /\ Len(runs[r].report.rewriting.improvements) = 2
    /\ Len(runs[r].report.grammar.issues) = 1
    /\ Len(runs[r].report.style.styleIssues) = 3
    /\ Len(runs[r].report.seo.seoRecommendations) = 3
    /\ Len(runs[r].report.analysis.issues) > 0
    /\ Len(runs[r].report.validation.validation) > 0

\* the text the stages after the Rewriter work on, as the code chooses it
RevisedText(run) ==
  IF run.results.rewriting.rewrittenText # << >>
  THEN run.results.rewriting.rewrittenText
  ELSE run.text

CallsWith(run, stages, text) ==
  \A i \in 1..Len(run.trace) :
    (run.trace[i].ev = "call" /\ run.trace[i].name \in stages)
      => run.trace[i].text = text

\* C3, as stated: the Grammar, Style, SEO and Validator stages receive
\* rewriting.rewrittenText and the returned finalText equals it.
C3_LaterStagesGetRewrittenText ==
  \A r \in Runs :
    ReturnedReport(r) =>
      /\ CallsWith(runs[r], {"grammar", "style", "seo", "validator"},
                   runs[r].report.rewriting.rewrittenText)
      /\ runs[r].report.finalText = runs[r].report.rewriting.rewrittenText

\* C3, amended: the current text is assigned once, after the Rewriter, to
\* rewriting.rewrittenText when that is non-empty and to the caller's text
\* otherwise; the Analyzer and the Rewriter receive the caller's text, the four
\* later stages all receive the current text, the returned finalText equals
\* it and the returned originalText equals the caller's text.
C3_CurrentTextThreaded ==
  \A r \in Runs :
    /\ CallsWith(runs[r], {"analyzer", "rewriter"}, runs[r].text)
    /\ Len(EventsOf(runs[r], "assign")) <= 1
    /\ runs[r].results.rewriting # Null =>
         /\ Len(EventsOf(runs[r], "assign")) = 1
         /\ CallsWith(runs[r], {"grammar", "style", "seo", "validator"},
                      RevisedText(runs[r]))
    /\ ReturnedReport(r) =>
         /\ runs[r].report.finalText = RevisedText(runs[r])
         /\ runs[r].report.originalText = runs[r].text
         /\ StagesCalled(runs[r]) = agentOrder

\* a report whose final text is a rewritten text other than the caller's
C3_Witness ==
  \E r \in Runs :
    /\ ReturnedReport(r)
    /\ runs[r].report.rewriting.rewrittenText = RewriteSplit
    /\ runs[r].text = TextLong
    /\ runs[r].report.finalText = RewriteSplit

\* C4, as stated: an exception thrown by onProgress never aborts the run.
C4_CallbackFailureIsolated ==
  \A r \in Runs : Aborted(r) => runs[r].error # Error("onProgress threw")

CountOfEvents(run, ev) == Len(EventsOf(run, ev))

\* C5: a call of processText without an API credential issues no request, runs
\* no stage after the Rewriter, never calls onProgress with grammar, style,
\* seo, validator or done, returns no report and ends by throwing; once the
\* Rewriter has been invoked the error thrown is its 'API key requerida'.
C5_MissingCredentialAborts ==
  \A r \in Runs :
    (runs[r].pc # "idle" /\ runs[r].caller = "direct" /\ Len(runs[r].apiKey) = 0) =>
      /\ CountOfEvents(runs[r], "request") = 0
      /\ IsPrefix(StagesCalled(runs[r]), <<"analyzer", "rewriter">>)
      /\ \A i \in 1..Len(ProgressNames(runs[r])) :
           ProgressNames(runs[r])[i] \notin LaterNames
      /\ runs[r].pc \in {"analyzer", "done"}
      /\ Finished(r) =>
           /\ runs[r].outcome = "threw"
           /\ runs[r].report = NewResults(<< >>)
           /\ "rewriter" \in {StagesCalled(runs[r])[i] :
                                i \in 1..Len(StagesCalled(runs[r]))}
                => runs[r].error = Error("API key requerida")

\* the Rewriter was invoked without a credential and the call ended
C5_Witness ==
  \E r \in Runs :
    /\ Aborted(r)
    /\ Len(runs[r].apiKey) = 0
    /\ StagesCalled(runs[r]) = <<"analyzer", "rewriter">>
    /\ runs[r].error = Error("API key requerida")

\* a response that was not 2xx has arrived
ServiceRefused(run) == run.status # NoResponseStatus /\ ~ResponseOk(run.status)

\* what reading the error body gave: '' when the read failed
BodyRead(run) ==
  LET read == EventsOf(run, "body")
  IN IF read[1].name = "read" THEN read[1].text ELSE << >>

\* a report is complete when every stage's result is in it
Complete(report) ==
  /\ report.analysis # Null /\ report.rewriting # Null /\ report.grammar # Null
  /\ report.style # Null /\ report.seo # Null /\ report.validation # Null

\* C6: after a response that is not 2xx the Rewriter throws an error carrying
\* the status and the response body ('' when the body cannot be read), no stage
\* after the Rewriter runs, the run ends by throwing, and the popup shows the
\* error and is handed no report, partial or whole.
C6_ServiceErrorAborts ==
  /\ analysisResult # Null => Complete(analysisResult)
  /\ \A r \in Runs :
       ServiceRefused(runs[r]) =>
         /\ runs[r].pc \in {"errorBody", "done"}
         /\ StagesCalled(runs[r]) = <<"analyzer", "rewriter">>
         /\ ProgressNames(runs[r]) = <<"analyzer", "rewriter">>
         /\ CountOfEvents(runs[r], "request") = 1
         /\ Finished(r) =>
              /\ runs[r].outcome = "threw"
              /\ runs[r].error.kind = "API error"
              /\ runs[r].error.status = runs[r].status
              /\ runs[r].error.body = BodyRead(runs[r])
              /\ runs[r].report = NewResults(<< >>)
              /\ analysisResult # runs[r].results
              /\ dom.errorVisible /\ ~dom.btnDisabled

\* the service answered 401 with a body, and the run ended with both in its error
C6_Witness ==
  \E r \in Runs :
    /\ Aborted(r)
    /\ runs[r].status = 401
    /\ runs[r].error = ApiError(401, <<"e", "r", "r">>)
    /\ dom.errorMessage = runs[r].error

\* the invocations and returns of the stages, in order
CallsAndReturns(run) == SelectSeq(run.trace, LAMBDA e : e.ev \in {"call", "return"})

\* C7: in one run the stages are invoked in the order analyzer, rewriter,
\* grammar, style, seo, validator, each at most once and each only after the
\* stage before it has returned; the Rewriter issues at most one request, while
\* it runs, and none after a failure.
C7_StagesSequential ==
  \A r \in Runs :
    LET steps == CallsAndReturns(runs[r])
    IN /\ Len(steps) <= 2 * Len(agentOrder)
       /\ \A i \in 1..Len(steps) :
            /\ steps[i].ev = IF i % 2 = 1 THEN "call" ELSE "return"
            /\ steps[i].name = agentOrder[(i + 1) \div 2]
       /\ CountOfEvents(runs[r], "request") <= 1
       /\ \A i \in 1..Len(runs[r].trace) :
            runs[r].trace[i].ev = "request" =>
              /\ \E j \in 1..(i - 1) :
                   runs[r].trace[j] = Event("call", "rewriter", runs[r].text)
              /\ \A j \in 1..(i - 1) : runs[r].trace[j].ev # "return"
                                        \/ runs[r].trace[j].name = "analyzer"

\* the one request of a run failed and the run ended there
C7_Witness ==
  \E r \in Runs :
    /\ Aborted(r)
    /\ runs[r].error = Error("Failed to fetch")
    /\ CountOfEvents(runs[r], "request") = 1
    /\ StagesCalled(runs[r]) = <<"analyzer", "rewriter">>

\* the response startAnalysis refuses
Refused(response) ==
  \/ ~response.answered
  \/ ~response.success
  \/ Len(response.text) = 0
  \/ Len(Trim(response.text)) < MinTextLength

\* C8: when the content script gives no response, reports failure, or gives a
\* text that is missing or shorter than 20 characters once trimmed,
\* startAnalysis shows the error and never calls processText: no stage runs,
\* onProgress is not called and no request is issued.
C8_ExtractionFailureStopsRun ==
  \A r \in Runs :
    (runs[r].responded /\ Refused(runs[r].response)) =>
      /\ Aborted(r)
      /\ runs[r].trace = << >>
      /\ dom.errorVisible
      /\ ~dom.btnDisabled

\* the page held some text, too little, and the run ended without a stage
C8_Witness ==
  \E r \in Runs :
    /\ Aborted(r)
    /\ runs[r].responded
    /\ runs[r].response.success
    /\ runs[r].response.text = TextShort
    /\ runs[r].trace = << >>

\* a step that changes the stored charLimit stores the number parsed from the
\* field, which is at least 500
C9_Write ==
  storage'.charLimit # storage.charLimit =>
    LET limit == ParseInt(dom'.charLimit)
    IN ~limit.nan /\ limit.value >= MinCharLimit /\ storage'.charLimit = limit.value

\* C9: charLimit is written to the settings store only with a parsed integer
\* of at least 500; a smaller or non-numeric value leaves the stored one as it was.
C9_CharLimitWrites ==
  /\ [][C9_Write]_vars
  /\ [](storage.charLimit = 0 \/ storage.charLimit >= MinCharLimit)

\* 500 was stored, then 499 was entered, and 500 is still stored
C9_Witness ==
  /\ storage.charLimit = MinCharLimit
  /\ dom.charLimit = <<"4", "9", "9">>

\* the words of the sentences: their non-empty tokens between white space
RECURSIVE SumWordCount(_)
SumWordCount(ss) ==
  IF ss = << >> THEN 0 ELSE WordCount(Head(ss)) + SumWordCount(Tail(ss))

\* clamp(1 - |avg - 15| / 30, 0, 1) in hundredths, avg the mean number of
\* words of the sentences; 0 without sentences
ReadabilityOfMeanWords(text) ==
  LET sentences == Sentences(text)
      n == Len(sentences)
      num == 30 * n - Abs(SumWordCount(sentences) - 15 * n)
  IN IF n = 0 THEN 0
     ELSE ToFixed2(IF num < 0 THEN 0 ELSE IF num > 30 * n THEN 30 * n ELSE num, 30 * n)

\* C10, as stated: the Style stage's readabilityScore is
\* clamp(1 - |avg - 15| / 30, 0, 1) rounded to two decimals, avg being the mean
\* number of words per sentence, and 0 for a text without sentences.
C10_ReadabilityFormula ==
  \A r \in Runs :
    runs[r].results.style # Null =>
      runs[r].results.style.readabilityScore = ReadabilityOfMeanWords(runs[r].currentText)

\* num / den rounded to hundredths, halves away from zero, den > 0
Round2(num, den) == IF num < 0 THEN -ToFixed2(-num, den) ELSE ToFixed2(num, den)

\* the text the SEO stage of run r worked on, and its sentences
SeoRan(r) == runs[r].results.seo # Null

Pieces(s) ==
  WordCount(s) + (IF s[1] \in WS THEN 1 ELSE 0) + (IF s[Len(s)] \in WS THEN 1 ELSE 0)

RECURSIVE SumPieces(_)
SumPieces(ss) == IF ss = << >> THEN 0 ELSE Pieces(Head(ss)) + SumPieces(Tail(ss))

ValidatorRan(r) == runs[r].results.validation # Null

\* what a sentence of so many words adds to the quality score, in tenths
Contribution(words) ==
  CASE words \in 15..25 -> 10
    [] words \in (10..30) \ (15..25) -> 7
    [] OTHER -> 3

RECURSIVE SumContributions(_)
SumContributions(ss) ==
  IF ss = << >> THEN 0
  ELSE Contribution(WordCount(Head(ss))) + SumContributions(Tail(ss))

\* C12: the Validator's qualityScore is the mean over the sentences of 1.0 for
\* 15 to 25 words, 0.7 for 10 to 30 words outside that, 0.3 otherwise, rounded
\* to two decimals; it lies in [0,1], and is 0 for a text without sentences.
C12_QualityScore ==
  \A r \in Runs :
    ValidatorRan(r) =>
      LET sentences == Sentences(runs[r].currentText)
          n == Len(sentences)
          score == runs[r].results.validation.qualityScore
      IN /\ score \in 0..100
         /\ n = 0 => score = 0
         /\ n > 0 => score = ToFixed2(SumContributions(sentences), 10 * n)

\* seven sentences of 10, 14, 15, 25, 26, 30 and 31 words score 5.1 / 7 = 0.73
C12_Witness ==
  \E r \in Runs :
    /\ ValidatorRan(r)
    /\ runs[r].currentText = TextBands
    /\ Len(Sentences(TextBands)) = 7
    /\ runs[r].results.validation.qualityScore = 73

\* the validations of the sentences from the i-th on
RECURSIVE ValidationsFrom(_, _)
ValidationsFrom(sentences, i) ==
  IF i > Len(sentences) THEN << >>
  ELSE LET words == WordCount(sentences[i])
       IN (IF words > 30
           THEN << [status |-> "warning", sentence |-> i, words |-> words] >>
           ELSE IF words \in 15..25
           THEN << [status |-> "success", sentence |-> i, words |-> words] >>
           ELSE << >>)
          \o ValidationsFrom(sentences, i + 1)

\* C13: the Validator emits, in sentence order, one warning for each sentence
\* of more than 30 words, naming its 1-based index and its word count, one
\* success for each sentence of 15 to 25 words, and nothing else; one sentence
\* of 40 words gives one warning naming 40, and a quality score of 0.3.
C13_Validations ==
  \A r \in Runs :
    ValidatorRan(r) =>
      /\ runs[r].results.validation.validation =
           ValidationsFrom(Sentences(runs[r].currentText), 1)
      /\ runs[r].currentText = TextForty =>
           /\ runs[r].results.validation.validation =
                << [status |-> "warning", sentence |-> 1, words |-> 40] >>
           /\ runs[r].results.validation.qualityScore = 30

\* the Validator was handed sentences of 10, 14, 15, 25, 26, 30 and 31 words:
\* the third and the fourth are a success, the seventh a warning
C13_Witness ==
  \E r \in Runs :
    /\ ValidatorRan(r)
    /\ runs[r].currentText = TextBands
    /\ runs[r].results.validation.validation =
         << [status |-> "success", sentence |-> 3, words |-> 15],
            [status |-> "success", sentence |-> 4, words |-> 25],
            [status |-> "warning", sentence |-> 7, words |-> 31] >>

\* C14, as stated: the compliance list has four entries, in a fixed order,
\* whose passed flags are: there is a sentence; the mean number of words per
\* sentence is at most 30 (true without sentences); the text contains '.',
\* '!' or '?'; the trimmed text is not empty.
C14_Compliance ==
  \A r \in Runs :
    ValidatorRan(r) =>
      LET text == runs[r].currentText
          sentences == Sentences(text)
          n == Len(sentences)
          compliance == runs[r].results.validation.compliance
      IN /\ Len(compliance) = 4
         /\ [i \in 1..4 |-> compliance[i].criterion] =
              << "Oraciones completas", "Longitud promedio adecuada",
                 "Puntuación apropiada", "Contenido no vacío" >>
         /\ compliance[1].passed = (n > 0)
         /\ compliance[2].passed = (n = 0 \/ SumWordCount(sentences) <= 30 * n)
         /\ compliance[3].passed = (\E i \in 1..Len(text) : text[i] \in {".", "!", "?"})
         /\ compliance[4].passed = ~IsBlank(text)

\* the part of C14 that does not rest on a word count: four entries, in the
\* fixed order, the first, third and fourth flags as stated
C14_FourEntries ==
  \A r \in Runs :
    ValidatorRan(r) =>
      LET text == runs[r].currentText
          compliance == runs[r].results.validation.compliance
      IN /\ Len(compliance) = 4
         /\ compliance[1].passed = (Len(Sentences(text)) > 0)
         /\ compliance[3].passed = (\E i \in 1..Len(text) : text[i] \in {".", "!", "?"})
         /\ compliance[4].passed = ~IsBlank(text)

AnalyzerRan(r) == runs[r].results.analysis # Null

\* the classification of a text of so many words
Classified(words, text, isWebPage) ==
  IF words < 100 THEN "short"
  ELSE IF isWebPage THEN "web"
  ELSE IF \/ Includes(text, <<"m", "e", "t", "a">>)
          \/ Includes(text, <<"t", "í", "t", "u", "l", "o">>)
          \/ Includes(text, <<"S", "E", "O">>)
       THEN "web"
  ELSE "document"

\* C15, as stated: the Classifier returns 'short' when the text has fewer than
\* 100 words; otherwise 'web' when context.isWebPage is true; otherwise 'web'
\* when the text contains 'meta', 'título' or 'SEO'; otherwise 'document'.
C15_Classification ==
  \A r \in Runs :
    AnalyzerRan(r) =>
      runs[r].results.analysis.classification =
        Classified(WordCount(runs[r].text), runs[r].text, runs[r].isWebPage)

\* the order of the four cases holds of the count the code takes, which is
\* one more than the words for white space at either end of the text
C15_ClassificationOfPieces ==
  \A r \in Runs :
    AnalyzerRan(r) =>
      runs[r].results.analysis.classification =
        Classified(IF IsBlank(runs[r].text) THEN SplitLength(runs[r].text)
                   ELSE Pieces(runs[r].text),
                   runs[r].text, runs[r].isWebPage)

RewriterRan(r) == runs[r].results.rewriting # Null

TypesOf(findings) == [i \in 1..Len(findings) |-> findings[i].type]

\* a mean of sum over n items, 0 over none, as a fraction <<numerator, denominator>>
MeanOf(sum, n) == IF n = 0 THEN <<0, 1>> ELSE <<sum, n>>

\* whether the mean b is lower than the mean a by at least d, or by more than d
LowerByAtLeast(b, a, d) == b[1] * a[2] <= a[1] * b[2] - d * a[2] * b[2]

LowerByMoreThan(b, a, d) == b[1] * a[2] < a[1] * b[2] - d * a[2] * b[2]

StyleRan(r) == runs[r].results.style # Null

\* the texts whose sentences a stage of run r took a mean over
MeanTexts(r) ==
  (IF RewriterRan(r)
   THEN {runs[r].results.rewriting.originalText, runs[r].results.rewriting.rewrittenText}
   ELSE {})
  \cup (IF StyleRan(r) \/ SeoRan(r) \/ ValidatorRan(r) THEN {runs[r].currentText} ELSE {})

\* the texts whose sentences a stage of run r compared against 30 words
LimitTexts(r) ==
  (IF AnalyzerRan(r) \/ RewriterRan(r) THEN {runs[r].text} ELSE {})
  \cup (IF StyleRan(r) \/ ValidatorRan(r) THEN {runs[r].currentText} ELSE {})

\* the per-sentence counts compared against 30 are the sentences' words
C17_TrimmedCounts ==
  \A r \in Runs : \A text \in LimitTexts(r) :
    \A i \in 1..Len(Sentences(text)) :
      TrimSplitLength(Sentences(text)[i]) = WordCount(Sentences(text)[i])

\* C17, as stated: every word count a stage computes, the Classifier's count
\* of the whole text, the per-sentence counts compared against 30 and the
\* per-sentence counts summed into a mean, is the number of non-empty tokens
\* between runs of white space.
C17_WordCounts ==
  /\ C17_TrimmedCounts
  /\ \A r \in Runs :
       /\ AnalyzerRan(r) => SplitLength(runs[r].text) = WordCount(runs[r].text)
       /\ \A text \in MeanTexts(r) :
            \A i \in 1..Len(Sentences(text)) :
              SplitLength(Sentences(text)[i]) = WordCount(Sentences(text)[i])

\* the texts run r has split into sentences
StageTexts(r) ==
  IF runs[r].pc = "idle" THEN {}
  ELSE {runs[r].text}
       \cup (IF RewriterRan(r) THEN {runs[r].results.rewriting.rewrittenText} ELSE {})
       \cup (IF StyleRan(r) \/ SeoRan(r) \/ ValidatorRan(r)
             THEN {runs[r].currentText} ELSE {})

HasTerminal(text) == \E i \in 1..Len(text) : text[i] \in {".", "!", "?"}

HasContent(s) == \E i \in 1..Len(s) : s[i] \notin {" ", "\n", "\t"}

NoBlankSentence(text) ==
  \A i \in 1..Len(Sentences(text)) : HasContent(Sentences(text)[i])

\* C18, as stated: sentence splitting yields no empty or white-space-only
\* sentence, and a non-empty text has 0 sentences only when it has no
\* sentence-terminal punctuation and is empty after trim.
C18_NoSentencesOnlyIfBlank ==
  \A r \in Runs : \A text \in StageTexts(r) :
    /\ NoBlankSentence(text)
    /\ (Len(text) > 0 /\ Len(Sentences(text)) = 0)
         => (~HasTerminal(text) /\ Len(Trim(text)) = 0)

\* C18, amended: sentence splitting yields no empty or white-space-only
\* sentence, no sentence holds '.', '!' or '?', and a text has 0 sentences
\* exactly when it holds nothing but white space and '.', '!', '?'.
C18_NoSentencesIffNoContent ==
  \A r \in Runs : \A text \in StageTexts(r) :
    /\ NoBlankSentence(text)
    /\ \A i \in 1..Len(Sentences(text)) : ~HasTerminal(Sentences(text)[i])
    /\ Len(Sentences(text)) = 0
         <=> \A i \in 1..Len(text) : text[i] \in {" ", "\n", "\t", ".", "!", "?"}

\* the Validator was handed '...': no sentence, though there is punctuation
C18_Witness ==
  \E r \in Runs :
    /\ ValidatorRan(r)
    /\ runs[r].currentText = <<".", ".", ".">>
    /\ ~runs[r].results.validation.compliance[1].passed
    /\ runs[r].results.validation.compliance[3].passed

RunsInFlight == {r \in Runs : InFlight(r)}

\* the awaits of startAnalysis and of processText, in the order they are reached
AwaitOrder ==
  <<"tabsQuery", "sendMessage", "executeScript", "sendMessageAgain",
    "analyzer", "fetch", "errorBody", "json", "grammar", "style", "seo", "validator",
    "done">>

\* how far a run has got
Rank(pc) == IF pc = "idle" THEN 0 ELSE CHOOSE i \in 1..Len(AwaitOrder) : AwaitOrder[i] = pc

\* at most one run is in flight, waiting at one of the awaits; the button is
\* disabled exactly while one is; every run was started with an API key
C19_State ==
  /\ Cardinality(RunsInFlight) <= 1
  /\ dom.btnDisabled <=> RunsInFlight # {}
  /\ \A r \in RunsInFlight :
       \E i \in 1..(Len(AwaitOrder) - 1) : runs[r].pc = AwaitOrder[i]
  /\ \A r \in Runs : runs[r].caller = "popup" => Len(runs[r].apiKey) > 0

\* with an empty API key and the button enabled no step starts a run or
\* disables the button; a run that enters processText starts from new results;
\* every step of a run in flight takes it further, so that the run ends
C19_Step ==
  /\ (Len(Trim(dom.apiKey)) = 0 /\ ~dom.btnDisabled)
       => (runs' = runs /\ ~dom'.btnDisabled)
  /\ \A r \in Runs :
       /\ (runs[r].trace = << >> /\ runs'[r].trace # << >>)
            => runs'[r].results = NewResults(runs'[r].text)
       /\ (InFlight(r) /\ runs'[r] # runs[r])
            => Rank(runs'[r].pc) > Rank(runs[r].pc)
       /\ (InFlight(r) /\ runs'[r].pc = "done")
            => (~dom'.btnDisabled /\ runs'[r].outcome \in {"returned", "threw"})

\* C19: in the popup at most one analysis run is in flight at a time, the
\* button being disabled from the click until the run ends; each run starts
\* from a coordinator of its own; on every path the run ends, after at most
\* one step for each await, and the button is enabled again; a click with an
\* empty API key starts no run and leaves the button enabled.
C19_OneRunAtATime == []C19_State /\ [][C19_Step]_vars

\* a second run is in flight after a first one returned its report
C19_Witness ==
  \E r \in Runs :
    /\ InFlight(r)
    /\ runs[r].pc = "fetch"
    /\ analysisResult # Null
    /\ dom.btnDisabled

=============================================================================
